---- MODULE Spec2Model ----
(***************************************************************************)
(* RandomController (src/core/random_controller.py) driven by concurrent   *)
(* start()/stop() coroutines on one asyncio event loop, against a          *)
(* YCY_FJB_Device (src/core/ycy_fjb.py) whose writes may fail.             *)
(*                                                                         *)
(* One step of the model is what one coroutine runs between two awaits.    *)
(* A device call is issued in the step that reaches it and the coroutine   *)
(* is then suspended in the await (its pc names the call, the head of its  *)
(* vals is the value written); when it resumes the write has either        *)
(* completed or raised.  Durations are in hundredths of a second.          *)
(***************************************************************************)
EXTENDS Integers, Sequences, FiniteSets, TLC

\* ---------------------------------------------------------------- bounds
\* Coroutines that call start()/stop() on the same controller.
NumCallers == 2
\* start()/stop() calls made in one behaviour.
MaxCalls == 3

Callers == 1..NumCallers
\* asyncio tasks created by start(): at most one per call.
TaskIds == 1..MaxCalls

Max(a, b) == IF a >= b THEN a ELSE b
Min(a, b) == IF a <= b THEN a ELSE b

\* ---------------------------------------------------------------- inputs
\* limits arguments that pass the validation of start()
GoodLimits ==
    { [A |-> <<0, 1>>,   B |-> <<0, 1>>, C |-> <<1, 1>>],
      [A |-> <<21, 21>>, B |-> <<2, 2>>, C |-> <<0, 0>>] }

\* limits arguments start() rejects, one for each way: bound exceeded (A, B,
\* C), inverted pair, negative minimum, missing channel, and a fourth key
\* whose pair is out of range.
BadLimits ==
    { [A |-> <<0, 41>>,  B |-> <<0, 20>>, C |-> <<0, 20>>],
      [A |-> <<0, 40>>,  B |-> <<0, 21>>, C |-> <<0, 20>>],
      [A |-> <<0, 1>>,   B |-> <<0, 1>>,  C |-> <<21, 22>>],
      [A |-> <<2, 1>>,   B |-> <<0, 1>>,  C |-> <<1, 1>>],
      [A |-> <<0, 1>>,   B |-> <<-1, 1>>, C |-> <<1, 1>>],
      [A |-> <<0, 1>>,   B |-> <<0, 1>>],
      [A |-> <<0, 1>>,   B |-> <<0, 1>>,  C |-> <<1, 1>>, D |-> <<0, 25>>] }

\* (mode, limits) arguments handed to start(); "auto" is a mode it rejects.
StartInputs ==
    ({"speed", "mode"} \X GoodLimits)
    \cup { <<"auto", lim>> : lim \in GoodLimits }
    \cup { <<"speed", lim>> : lim \in BadLimits }

\* Every (min, max) pair start() accepts for channel B or C.
BCPairs == { <<lo, hi>> : lo \in 0..20, hi \in 0..20 } \ { <<lo, hi>> \in (0..20) \X (0..20) : lo > hi }

\* Every (min, max) pair start() accepts for channel A.
APairs == { <<lo, hi>> \in (0..40) \X (0..40) : lo <= hi }

\* limits of a session whose cycles are followed: every valid A range, A
\* ranges beside a B range that is not a single value, every valid B range
\* and C range, and one with the same range on the three channels.
CycleLimits ==
    { [A |-> <<0, hi>>, B |-> <<0, 1>>, C |-> <<0, 0>>] : hi \in 0..40 }
    \cup { [A |-> a, B |-> <<0, 0>>, C |-> <<0, 0>>] : a \in APairs }
    \cup { [A |-> <<1, 2>>, B |-> <<1, 2>>, C |-> <<1, 2>>] }
    \cup { [A |-> a, B |-> <<1, 2>>, C |-> <<0, 0>>] : a \in {<<3, 4>>, <<19, 22>>, <<21, 40>>} }
    \cup { [A |-> <<0, 0>>, B |-> b, C |-> <<0, 0>>] : b \in BCPairs }
    \cup { [A |-> <<0, 0>>, B |-> <<0, 0>>, C |-> c] : c \in BCPairs }

\* limits with a fourth key whose pair lies within 0..20.
ExtraKeyLimits == [A |-> <<0, 1>>, B |-> <<0, 1>>, C |-> <<1, 1>>, D |-> <<0, 5>>]

\* (mode, limits) arguments of the start() that opens such a session.
CycleInputs ==
    ({"speed"} \X CycleLimits) \cup ({"mode"} \X GoodLimits)
    \cup { <<"speed", ExtraKeyLimits>> }

\* random.uniform(3.0, 11.0) sampled at its two ends.
HoldChoices == {300, 1100}

\* random.uniform(3.0, 11.0) sampled at every tenth of a second.
HoldTenths == { 10 * k : k \in 30..110 }

\* ------------------------------------------------- RandomController.start
\* line 169
ValidMode(m) == m \in {"speed", "mode"}

\* line 172
HasChannels(lim) == \A channel \in {"A", "B", "C"} : channel \in DOMAIN lim

\* ValidPair with the bound of channel A applied to every channel.
ValidPairMut(channel, pair) ==
    0 <= pair[1] /\ pair[1] <= pair[2] /\ pair[2] <= 40

\* lines 177-182: the bound of one (channel, (min_val, max_val)) item
ValidPair(channel, pair) ==
    IF channel = "A"
    THEN 0 <= pair[1] /\ pair[1] <= pair[2] /\ pair[2] <= 40
    ELSE 0 <= pair[1] /\ pair[1] <= pair[2] /\ pair[2] <= 20

\* lines 176-182: the loop runs over limits.items(), every key of the dict
ValidLimits(lim) == \A channel \in DOMAIN lim : ValidPair(channel, lim[channel])

\* lines 169-182: start() goes on only when none of the three checks raises
Validate(m, lim) == ValidMode(m) /\ HasChannels(lim) /\ ValidLimits(lim)

\* ------------------------------- RandomController._generate_random_value
\* generate_random_value with every range() taken without its + 1: the upper
\* end of each range is left out.
generate_random_valueMut(lim, channel, exclude_values) ==
    LET min_val == lim[channel][1]
        max_val == lim[channel][2]
    IN  IF channel = "A"
        THEN LET pause == IF min_val = 0 THEN {0} ELSE {}
                 forward == Max(1, min_val)..(Min(20, max_val) - 1)
                 reverse == Max(21, min_val)..(Min(40, max_val) - 1)
                 possible_values == (pause \cup forward \cup reverse) \ exclude_values
             IN  IF possible_values = {} THEN {min_val} ELSE possible_values
        ELSE LET possible_values == (min_val..(max_val - 1)) \ exclude_values
             IN  IF possible_values = {} THEN {min_val} ELSE possible_values

\* possible_values with the reverse range taken as the forward range moved
\* up by 20, as the example of the module docstring reads the limits.
possible_valuesMut(lim, channel, exclude_values) ==
    LET min_val == lim[channel][1]
        max_val == lim[channel][2]
    IN  IF channel = "A"
        THEN LET pause == IF min_val = 0 THEN {0} ELSE {}
                 forward == Max(1, min_val)..Min(20, max_val)
                 reverse == (Max(1, min_val) + 20)..Min(40, max_val + 20)
             IN  (pause \cup forward \cup reverse) \ exclude_values
        ELSE (min_val..max_val) \ exclude_values

\* The list possible_values as random.choice or the test of emptiness finds
\* it (lines 247-266 for channel A, line 275 for B and C).
possible_values(lim, channel, exclude_values) ==
    LET min_val == lim[channel][1]
        max_val == lim[channel][2]
    IN  IF channel = "A"
        THEN LET pause == IF min_val = 0 THEN {0} ELSE {}
                 forward_min == Max(1, min_val)
                 forward_max == Min(20, max_val)
                 forward == IF forward_min <= forward_max
                            THEN forward_min..forward_max ELSE {}
                 reverse_min == Max(21, min_val)
                 reverse_max == Min(40, max_val)
                 reverse == IF reverse_min <= reverse_max
                            THEN reverse_min..reverse_max ELSE {}
             IN  (pause \cup forward \cup reverse) \ exclude_values
        ELSE (min_val..max_val) \ exclude_values

\* The set random.choice draws from, or {min_val} when that list is empty
\* (lines 268-272 and 276-278).
generate_random_value(lim, channel, exclude_values) ==
    IF possible_values(lim, channel, exclude_values) = {}
    THEN {lim[channel][1]}
    ELSE possible_values(lim, channel, exclude_values)

\* ModeValues with random.randint(1, 8).
ModeValuesMut == 1..8

\* random.randint(1, 7) of _execute_mode_mode
ModeValues == 1..7

\* ycy_fjb.py set_speed lines 235-243 and set_mode lines 259-263: the
\* arguments of a device call w that pass the device's validation.
DeviceAccepts(w) ==
    /\ w.ch \in {"A", "B", "C"}
    /\ w.op = "set_speed" =>
          IF w.ch = "A" THEN 0 <= w.val /\ w.val <= 40
                        ELSE 0 <= w.val /\ w.val <= 20
    /\ w.op = "set_mode" => (0 <= w.val /\ w.val <= 7)

\* asyncio.sleep(10) of _execute_once
HoldOnce == 1000

\* asyncio.sleep(1) of the loop's except branch
Backoff == 100

\* exhale_duration without the clamp of line 310.
exhale_durationMut(inhale_duration) == (inhale_duration * 6) \div 10

\* _handle_b_channel_exhale_cycle lines 309-310: max(0.5, min(d * 0.6, 3.0))
exhale_duration(inhale_duration) == Max(50, Min((inhale_duration * 6) \div 10, 300))

\* ------------------------------------------------------------------ state
VARIABLES
    is_running,       \* RandomController.is_running
    mode,             \* RandomController.mode: "None", "speed" or "mode"
    limits,           \* RandomController.limits
    auto_loop,        \* RandomController.auto_loop
    task,             \* RandomController.task: 0 for None, else a task id
    b_channel_timer,  \* RandomController.b_channel_timer
    connected,        \* whether a device write goes through when awaited
    tasks,            \* the asyncio tasks running _random_loop
    calls,            \* the coroutines calling start()/stop()
    curSess,          \* sessions that have become Running so far
    stoppedUpTo,      \* sessions 1..stoppedUpTo were Running when a stop()
                      \* that has since returned was called
    activeMode,       \* mode of the session that became Running last
    ncalls,           \* start()/stop() calls made so far
    last,             \* the record of the call that returned last
    seen,             \* what status returned, if it was read since the
                      \* last step of the engine
    delays,           \* the values random.uniform(3.0, 11.0) is sampled at
    host,             \* the front end driving the engine: the CLI menu
                      \* (ControlPanel.py) or the GUI (YCYControlGUI.py)
    current_levels,   \* YCY_FJB_Device.current_levels, followed where the
                      \* device is called directly
    dev               \* the device call made last: its arguments, how it
                      \* ended, the packet it sent, current_levels before it

vars == <<is_running, mode, limits, auto_loop, task, b_channel_timer, connected,
          tasks, calls, curSess, stoppedUpTo, activeMode,
          ncalls, last, seen, delays, host, current_levels, dev>>

\* generate_frequency_delay with the 5-15 s of the design notes.
generate_frequency_delayMut == { d + 400 : d \in delays }

\* _generate_frequency_delay: random.uniform(3.0, 11.0), at the values it
\* is sampled at in this behaviour
generate_frequency_delay == delays

\* __init__ line 151
DefaultLimits == [A |-> <<0, 20>>, B |-> <<1, 20>>, C |-> <<0, 20>>]

\* A task that has not been created.
NoTask == [pc |-> "none", cancel |-> FALSE, vals |-> <<>>, dur |-> 0, sess |-> 0]

\* A caller that has made no call yet.
NoCall ==
    [pc |-> "idle", call |-> "none", arg_mode |-> "None", arg_limits |-> DefaultLimits,
     arg_auto |-> FALSE, vals |-> <<>>, dur |-> 0, sess |-> 0, waitfor |-> 0,
     arg_bad |-> FALSE, zop |-> "none", result |-> "none", was_running |-> FALSE,
     prev_mode |-> "None", prev_active |-> "None", target |-> 0, zdone |-> 0,
     failed |-> FALSE, ev |-> <<>>, task0 |-> 0]

\* status has not been read since the engine moved.
NoRead == [is_running |-> FALSE, mode |-> "unread", limits |-> DefaultLimits]

\* No device call.
NoWrite == [op |-> "none", ch |-> "-", val |-> 0, kind |-> "none"]

\* No front end: start() and stop() are called on the engine directly.
\*   kind     "none", "cli" or "gui"
\*   cli      where handle_random_control is: "menu", "input" (blocked in
\*            input() after start()), "stopping" (in await controller.stop())
\*   m        the mode chosen in the GUI
\*   irr      YCYControlGUI.is_random_running
\*   stopped  on_random_control_stopped has run
\*   queue    YCYControlGUI.queue: callbacks put by coroutines, not yet run
\*   startco, stopco, pause   where do_start, do_stop, do_pause are
\*   cap      is_random_running as temp_pause captured it
\*   pz       direct zero writes do_pause has issued
NoHost ==
    [kind |-> "none", cli |-> "none", m |-> "None", irr |-> FALSE,
     stopped |-> FALSE, queue |-> <<>>, startco |-> "none", stopco |-> "none",
     pause |-> "none", cap |-> FALSE, pz |-> 0]

\* ycy_fjb.py line 72: current_levels of a new device
NoLevels == [A |-> 0, B |-> 0, C |-> 0]

\* No packet.
NoPacket == [cmd |-> "none", data |-> <<>>]

\* No device call has been made.
NoDev ==
    [op |-> "none", motor |-> "-", val |-> 0, result |-> "none",
     sent |-> NoPacket, before |-> NoLevels]

\* The state as one record, so that the code of a handler reads as the
\* composition of its statements.  A step of the engine leaves the value
\* status returned earlier behind: seen starts from NoRead.
Cur ==
    [is_running |-> is_running, mode |-> mode, limits |-> limits,
     auto_loop |-> auto_loop, task |-> task, b_channel_timer |-> b_channel_timer,
     connected |-> connected, tasks |-> tasks, calls |-> calls,
     curSess |-> curSess, stoppedUpTo |-> stoppedUpTo,
     activeMode |-> activeMode, ncalls |-> ncalls, last |-> last,
     seen |-> NoRead, delays |-> delays, host |-> host,
     current_levels |-> current_levels, dev |-> dev]

Apply(s) ==
    /\ is_running' = s.is_running
    /\ mode' = s.mode
    /\ limits' = s.limits
    /\ auto_loop' = s.auto_loop
    /\ task' = s.task
    /\ b_channel_timer' = s.b_channel_timer
    /\ connected' = s.connected
    /\ tasks' = s.tasks
    /\ calls' = s.calls
    /\ curSess' = s.curSess
    /\ stoppedUpTo' = s.stoppedUpTo
    /\ activeMode' = s.activeMode
    /\ ncalls' = s.ncalls
    /\ last' = s.last
    /\ seen' = s.seen
    /\ delays' = s.delays
    /\ host' = s.host
    /\ current_levels' = s.current_levels
    /\ dev' = s.dev

\* RandomController.__init__ (lines 148-155), a connected device, no call made
Init ==
    /\ is_running = FALSE
    /\ mode = "None"
    /\ limits = DefaultLimits
    /\ auto_loop = TRUE
    /\ task = 0
    /\ b_channel_timer = "None"
    /\ connected = TRUE
    /\ tasks = [t \in TaskIds |-> NoTask]
    /\ calls = [c \in Callers |-> NoCall]
    /\ curSess = 0
    /\ stoppedUpTo = 0
    /\ activeMode = "None"
    /\ ncalls = 0
    /\ last = NoCall
    /\ seen = NoRead
    /\ delays = HoldChoices
    /\ host = NoHost
    /\ current_levels = NoLevels
    /\ dev = NoDev

\* ------------------------------------------------- one randomization cycle
\* Where a coroutine is left by the code it runs from one await to the next:
\* the await it is suspended in (pc), the drawn values it still holds, the
\* one being written first (vals), the duration it sleeps or will sleep (dur).
Frame(pc, vals, dur) == [pc |-> pc, vals |-> vals, dur |-> dur]

\* An outcome of a run between two awaits: the frame reached, and whether
\* the await resumed from raised.
Out(f, failed) == [f |-> f, failed |-> failed]

\* _execute_speed_mode line 387: the value handed to set_speed('B', ...)
BValue(b) == IF b > 0 THEN b ELSE 0

\* execute_speed_mode with the write of A left out: the cycle begins with C.
execute_speed_modeMut(lim) ==
    { Out(Frame("wC", <<c, b>>, 0), FALSE) :
        b \in generate_random_value(lim, "B", {}),
        c \in generate_random_value(lim, "C", {}) }

\* execute_speed_mode drawing B apart from A, and C apart from both.
execute_speed_modeDistinct(lim) ==
    { Out(Frame("wA", <<o[1], o[3], o[2]>>, 0), FALSE) :
        o \in { <<a, b, c>> \in generate_random_value(lim, "A", {})
                                 \X generate_random_value(lim, "B", {})
                                 \X generate_random_value(lim, "C", {}) :
                  a # b /\ c # a /\ c # b } }

\* _execute_speed_mode lines 379-385: draw A, B, C, then await set_speed('A')
execute_speed_mode(lim) ==
    { Out(Frame("wA", <<a, c, b>>, 0), FALSE) :
        a \in generate_random_value(lim, "A", {}),
        b \in generate_random_value(lim, "B", {}),
        c \in generate_random_value(lim, "C", {}) }

\* _execute_mode_mode lines 419-420: await set_mode(channel, mode_value).
\* random.randint(1, 7) (line 415) reads nothing of the engine, so the value
\* of a channel is chosen where it is written.
ModeWrite(pc) == { Out(Frame(pc, <<v>>, 0), FALSE) : v \in ModeValues }

\* _execute_mode_mode lines 411-420, up to the await of set_mode('A')
execute_mode_mode == ModeWrite("mA")

\* Hold with the single shot sleeping a random delay as the loop does.
HoldMut(loop) ==
    { Out(Frame("hold", <<>>, h), FALSE) : h \in generate_frequency_delay }

\* lines 339-341 (loop) and 365 (single shot): the hold sleep
Hold(loop) ==
    IF loop
    THEN { Out(Frame("hold", <<>>, h), FALSE) : h \in generate_frequency_delay }
    ELSE { Out(Frame("hold", <<>>, HoldOnce), FALSE) }

\* lines 333-336 / 359-362: the if/elif on self.mode that starts a cycle
BeginCycle(s, loop) ==
    IF s.mode = "speed" THEN execute_speed_mode(s.limits)
    ELSE IF s.mode = "mode" THEN execute_mode_mode
    ELSE Hold(loop)

\* line 330: the while condition; the coroutine ends when it is false
LoopTop(s) ==
    IF s.is_running /\ s.auto_loop
    THEN BeginCycle(s, TRUE)
    ELSE { Out(Frame("done", <<>>, 0), FALSE) }

\* EndCycle with the loop left after one cycle.
EndCycleMut(s, loop) ==
    { Out(Frame(IF loop THEN "done" ELSE "ret", <<>>, 0), FALSE) }

\* The end of a cycle: back to line 330, or _execute_once returns.
EndCycle(s, loop) ==
    IF loop THEN LoopTop(s) ELSE { Out(Frame("ret", <<>>, 0), FALSE) }

\* Raise with no except branch in the loop: the exception ends the task.
RaiseMut(loop) ==
    { Out(Frame(IF loop THEN "done" ELSE "ret", <<>>, 0), TRUE) }

\* lines 348-352 (loop: log, sleep 1 s) and 371-372 (single shot: log)
Raise(loop) ==
    IF loop
    THEN { Out(Frame("backoff", <<>>, Backoff), TRUE) }
    ELSE { Out(Frame("ret", <<>>, 0), TRUE) }

\* AfterHold with the test of self.mode dropped: the release runs in any mode.
AfterHoldMut(s, f, loop) ==
    { Out(Frame("rel", <<0>>, exhale_duration(f.dur)), FALSE) }

\* lines 344-346 / 368-369 and _handle_b_channel_exhale_cycle lines 309-315:
\* after the hold, in speed mode, await set_speed('B', 0)
AfterHold(s, f, loop) ==
    IF s.mode = "speed"
    THEN { Out(Frame("rel", <<0>>, exhale_duration(f.dur)), FALSE) }
    ELSE EndCycle(s, loop)

\* A coroutine resumes from the await its frame names.
Resume(s, f, loop) ==
    CASE f.pc = "wA" ->
            IF ~s.connected THEN Raise(loop)
            ELSE { Out(Frame("wC", Tail(f.vals), 0), FALSE) }
      [] f.pc = "wC" ->
            IF ~s.connected THEN Raise(loop)
            ELSE { Out(Frame("wB", <<BValue(f.vals[2])>>, 0), FALSE) }
      [] f.pc = "wB" -> IF ~s.connected THEN Raise(loop) ELSE Hold(loop)
      [] f.pc = "mA" -> IF ~s.connected THEN Raise(loop) ELSE ModeWrite("mB")
      [] f.pc = "mB" -> IF ~s.connected THEN Raise(loop) ELSE ModeWrite("mC")
      [] f.pc = "mC" -> IF ~s.connected THEN Raise(loop) ELSE Hold(loop)
      [] f.pc = "hold" -> AfterHold(s, f, loop)
      [] f.pc = "rel" ->
            \* lines 322-323: a failed release is logged inside the helper
            IF ~s.connected
            THEN { [o EXCEPT !.failed = TRUE] : o \in EndCycle(s, loop) }
            ELSE { Out(Frame("exhale", <<>>, f.dur), FALSE) }
      [] f.pc = "exhale" -> EndCycle(s, loop)
      [] f.pc = "backoff" -> LoopTop(s)
      [] f.pc = "new" -> LoopTop(s)

\* The awaits of a cycle, and those of them that are device calls.
CyclePcs == {"wA", "wC", "wB", "mA", "mB", "mC", "hold", "rel", "exhale"}

CycleWritePcs == {"wA", "wC", "wB", "mA", "mB", "mC", "rel"}

ZeroPcs == {"zA", "zB", "zC"}

\* The device call a coroutine of a cycle is suspended in (NoWrite if none).
CycleWrite(f) ==
    CASE f.pc = "wA" -> [op |-> "set_speed", ch |-> "A", val |-> f.vals[1], kind |-> "rand"]
      [] f.pc = "wC" -> [op |-> "set_speed", ch |-> "C", val |-> f.vals[1], kind |-> "rand"]
      [] f.pc = "wB" -> [op |-> "set_speed", ch |-> "B", val |-> f.vals[1], kind |-> "rand"]
      [] f.pc = "mA" -> [op |-> "set_mode", ch |-> "A", val |-> f.vals[1], kind |-> "rand"]
      [] f.pc = "mB" -> [op |-> "set_mode", ch |-> "B", val |-> f.vals[1], kind |-> "rand"]
      [] f.pc = "mC" -> [op |-> "set_mode", ch |-> "C", val |-> f.vals[1], kind |-> "rand"]
      [] f.pc = "rel" -> [op |-> "set_speed", ch |-> "B", val |-> f.vals[1], kind |-> "release"]
      [] OTHER -> NoWrite

\* ------------------------------------------------------- start() and stop()
\* What the interface documents as a valid call: mode 'speed' or 'mode',
\* channels A, B and C present, A within 0..40, B and C within 0..20, min <= max.
DocumentedValid(m, lim) ==
    /\ m \in {"speed", "mode"}
    /\ {"A", "B", "C"} \subseteq DOMAIN lim
    /\ 0 <= lim["A"][1] /\ lim["A"][1] <= lim["A"][2] /\ lim["A"][2] <= 40
    /\ 0 <= lim["B"][1] /\ lim["B"][1] <= lim["B"][2] /\ lim["B"][2] <= 20
    /\ 0 <= lim["C"][1] /\ lim["C"][1] <= lim["C"][2] /\ lim["C"][2] <= 20

\* The record of a call that has just been made: its arguments (kept only
\* for a call that passes validation) and the engine fields it found.
NewCall(s, call, m, lim, al) ==
    [NoCall EXCEPT !.pc = "called", !.call = call,
                   !.arg_mode = m, !.arg_limits = lim, !.arg_auto = al,
                   !.was_running = s.is_running, !.prev_mode = s.mode,
                   !.prev_active = s.activeMode, !.task0 = s.task]

\* The call of caller c returns, or raises when result is an error; what it
\* did is kept in last.
Return(s, c, result) ==
    [s EXCEPT !.calls[c] = NoCall,
              !.last = [s.calls[c] EXCEPT !.pc = "idle", !.result = result,
                                          !.vals = <<>>, !.dur = 0, !.waitfor = 0,
                                          !.zop = "none", !.sess = 0, !.target = 0,
                                          !.prev_mode = "None", !.prev_active = "None"]]

ZeroPc(ch) == CASE ch = "A" -> "zA" [] ch = "B" -> "zB" [] ch = "C" -> "zC"

\* stop() lines 214-216 / 218-220: one awaited zero write
ZeroWrite(s, c, ch) ==
    [s EXCEPT !.calls[c].pc = ZeroPc(ch), !.calls[c].vals = <<0>>,
              !.calls[c].zdone = @ + 1]

\* stop() line 213: the branch on self.mode
ZeroOp(m) == IF m = "speed" THEN "set_speed" ELSE "set_mode"

\* stop() lines 213-214 / 217-218: pick the operation, issue the write for A
stop_zeros(s, c) == ZeroWrite([s EXCEPT !.calls[c].zop = ZeroOp(s.mode)], c, "A")

\* TaskPending with the test of done() inverted.
TaskPendingMut(s) == s.task # 0 /\ s.tasks[s.task].pc = "done"

\* stop() line 205: self.task and not self.task.done()
TaskPending(s) == s.task # 0 /\ s.tasks[s.task].pc # "done"

\* stop_body with the await of the cancelled task (line 208) left out.
stop_bodyMut(s, c) ==
    LET s1 == [s EXCEPT !.is_running = FALSE, !.calls[c].target = s.curSess]
    IN  IF TaskPending(s1)
        THEN stop_zeros([s1 EXCEPT !.tasks[s1.task].cancel = TRUE,
                                   !.calls[c].waitfor = s1.task], c)
        ELSE stop_zeros(s1, c)

\* stop_body that awaits the task without having cleared is_running
\* (line 204) or requested its cancellation (line 206).
stop_bodyNoCancel(s, c) ==
    LET s1 == [s EXCEPT !.calls[c].target = s.curSess]
    IN  IF TaskPending(s1)
        THEN [s1 EXCEPT !.calls[c].pc = "await_task",
                        !.calls[c].waitfor = s1.task]
        ELSE stop_zeros(s1, c)

\* stop() lines 204-210, up to its first await
stop_body(s, c) ==
    LET s1 == [s EXCEPT !.is_running = FALSE, !.calls[c].target = s.curSess]
    IN  IF TaskPending(s1)
        THEN [s1 EXCEPT !.tasks[s1.task].cancel = TRUE,
                        !.calls[c].pc = "await_task",
                        !.calls[c].waitfor = s1.task]
        ELSE stop_zeros(s1, c)

\* What a single shot has done when it reaches frame f: the device call
\* issued, or the sleep begun.
EvOf(f) ==
    IF f.pc \in CycleWritePcs
    THEN <<[e |-> CycleWrite(f).kind, ch |-> CycleWrite(f).ch, n |-> 0]>>
    ELSE IF f.pc \in {"hold", "exhale"}
    THEN <<[e |-> f.pc, ch |-> "-", n |-> f.dur]>>
    ELSE <<>>

\* OnceStep with no except branch in _execute_once: the exception of a
\* failed write leaves start().
OnceStepMut(s, c, o) ==
    LET s1 == [s EXCEPT !.calls[c].pc = o.f.pc,
                        !.calls[c].vals = o.f.vals,
                        !.calls[c].dur = o.f.dur,
                        !.calls[c].failed = @ \/ o.failed,
                        !.calls[c].ev = @ \o EvOf(o.f)]
    IN  IF o.f.pc = "ret"
        THEN Return(s1, c, IF o.failed THEN "DeviceError" ELSE "ok")
        ELSE s1

\* OnceStep of a single shot that arms b_channel_timer with the release
\* (_schedule_exhale) when its hold begins.
OnceStepTimer(s, c, o) ==
    LET s1 == [s EXCEPT !.calls[c].pc = o.f.pc,
                        !.calls[c].vals = o.f.vals,
                        !.calls[c].dur = o.f.dur,
                        !.calls[c].failed = @ \/ o.failed,
                        !.calls[c].ev = @ \o EvOf(o.f),
                        !.b_channel_timer = IF o.f.pc = "hold" THEN "armed" ELSE @]
    IN  IF o.f.pc = "ret" THEN Return(s1, c, "ok") ELSE s1

\* _execute_once (lines 354-372) advanced by one outcome; start() returns
\* after it (line 198)
OnceStep(s, c, o) ==
    LET s1 == [s EXCEPT !.calls[c].pc = o.f.pc,
                        !.calls[c].vals = o.f.vals,
                        !.calls[c].dur = o.f.dur,
                        !.calls[c].failed = @ \/ o.failed,
                        !.calls[c].ev = @ \o EvOf(o.f)]
    IN  IF o.f.pc = "ret" THEN Return(s1, c, "ok") ELSE s1

\* asyncio.create_task: the next unused task id
NewTaskId(s) == 1 + Cardinality({t \in TaskIds : s.tasks[t].pc # "none"})

\* start() lines 191-198
start_tail(s, c) ==
    LET n == s.curSess + 1
        s1 == [s EXCEPT !.is_running = TRUE, !.curSess = n, !.activeMode = s.mode,
                        !.calls[c].sess = n]
    IN  IF s1.calls[c].arg_auto
        THEN LET tid == NewTaskId(s1)
             IN  { Return([s1 EXCEPT !.task = tid,
                                     !.tasks[tid] = [NoTask EXCEPT !.pc = "new", !.sess = n]],
                          c, "ok") }
        ELSE { OnceStep(s1, c, o) : o \in BeginCycle(s1, FALSE) }

\* start() lines 169-198, up to its first await or its return
start(s, c, m, lim, al) ==
    LET ok == Validate(m, lim)
        s0 == [s EXCEPT !.ncalls = @ + 1,
                        !.calls[c] = [NewCall(s, "start", IF ok THEN m ELSE "None",
                                              IF ok THEN lim ELSE DefaultLimits,
                                              IF ok THEN al ELSE FALSE)
                                      EXCEPT !.arg_bad = ~DocumentedValid(m, lim)]]
    IN  IF ~ok
        THEN { Return(s0, c, "ValueError") }
        ELSE LET s1 == [s0 EXCEPT !.mode = m, !.limits = lim, !.auto_loop = al]
             IN  IF s1.is_running THEN { stop_body(s1, c) } ELSE start_tail(s1, c)

\* stop() lines 200-210, up to its first await
stop(s, c) ==
    { stop_body([s EXCEPT !.ncalls = @ + 1,
                          !.calls[c] = NewCall(s, "stop", "None", DefaultLimits, FALSE)],
                c) }

\* stop() lines 222-227, then the caller: stop() returns, start() goes on
stop_end(s, c) ==
    LET s1 == [s EXCEPT !.b_channel_timer = "None",
                        !.stoppedUpTo = Max(@, s.calls[c].target),
                        !.calls[c].vals = <<>>,
                        !.calls[c].zop = "none"]
    IN  IF s1.calls[c].call = "stop" THEN { Return(s1, c, "ok") } ELSE start_tail(s1, c)

\* stop() resumed from one of its awaits (lines 208, 214-216, 218-220); a
\* failed device write raises out of stop() and out of a start() that called it
stop_resume(s, c) ==
    CASE s.calls[c].pc = "await_task" -> { stop_zeros(s, c) }
      [] s.calls[c].pc = "zA" ->
            IF ~s.connected THEN { Return(s, c, "DeviceError") } ELSE { ZeroWrite(s, c, "B") }
      [] s.calls[c].pc = "zB" ->
            IF ~s.connected THEN { Return(s, c, "DeviceError") } ELSE { ZeroWrite(s, c, "C") }
      [] s.calls[c].pc = "zC" ->
            IF ~s.connected THEN { Return(s, c, "DeviceError") } ELSE stop_end(s, c)

\* ---------------------------------------------------------------- actions
\* A caller calls start(mode, limits, auto_loop).
Start(c) ==
    /\ calls[c].pc = "idle"
    /\ ncalls < MaxCalls
    /\ \E in \in StartInputs, al \in BOOLEAN :
         \E s \in start(Cur, c, in[1], in[2], al) : Apply(s)

\* A caller calls stop().
Stop(c) ==
    /\ calls[c].pc = "idle"
    /\ ncalls < MaxCalls
    /\ \E s \in stop(Cur, c) : Apply(s)

\* stop() goes on: the awaited task has finished, or a zero write has ended.
StopResume(c) ==
    /\ calls[c].pc \in {"await_task"} \cup ZeroPcs
    /\ calls[c].pc = "await_task" => tasks[calls[c].waitfor].pc = "done"
    /\ \E s \in stop_resume(Cur, c) : Apply(s)

\* The single shot of start(auto_loop=False) goes on from an await.
ExecuteOnce(c) ==
    /\ calls[c].pc \in CyclePcs
    /\ \E o \in Resume(Cur, calls[c], FALSE) : Apply(OnceStep(Cur, c, o))

\* The loop task runs from one await to the next (or starts, or ends).
RandomLoop(t) ==
    /\ tasks[t].pc \in CyclePcs \cup {"new", "backoff"}
    /\ ~tasks[t].cancel
    /\ \E o \in Resume(Cur, tasks[t], TRUE) :
         Apply([Cur EXCEPT !.tasks[t] =
                   IF o.f.pc = "done" THEN [NoTask EXCEPT !.pc = "done"]
                   ELSE [pc |-> o.f.pc, cancel |-> FALSE, vals |-> o.f.vals,
                         dur |-> o.f.dur, sess |-> tasks[t].sess]])

\* task.cancel() reaches the task: CancelledError is raised at the await it
\* is suspended in (or before its first step) and no handler of the loop
\* catches it.
Cancelled(t) ==
    /\ tasks[t].pc \in CyclePcs \cup {"new", "backoff"}
    /\ tasks[t].cancel
    /\ Apply([Cur EXCEPT !.tasks[t] = [NoTask EXCEPT !.pc = "done"]])

\* The link to the device goes down: awaited writes raise from now on.
Disconnect ==
    /\ connected
    /\ Apply([Cur EXCEPT !.connected = FALSE, !.seen = seen])

\* The link is back.
Reconnect ==
    /\ ~connected
    /\ Apply([Cur EXCEPT !.connected = TRUE, !.seen = seen])

\* start() and stop() called one after the other (a call is made only when
\* the call before it has returned), on a device whose link may drop.
AllIdle == \A c \in Callers : calls[c].pc = "idle"

SeqStart(c) == AllIdle /\ Start(c)

SeqStop(c) == AllIdle /\ Stop(c)

Next ==
    \/ \E c \in Callers : SeqStart(c)
    \/ \E c \in Callers : SeqStop(c)
    \/ \E c \in Callers : StopResume(c)
    \/ \E c \in Callers : ExecuteOnce(c)
    \/ \E t \in TaskIds : RandomLoop(t)
    \/ \E t \in TaskIds : Cancelled(t)
    \/ Disconnect
    \/ Reconnect

Spec == Init /\ [][Next]_vars

\* start() and stop() called from coroutines that run concurrently on the
\* event loop (the GUI hands each button press to the loop as its own
\* coroutine), on a device whose link stays up.
NextConc ==
    \/ \E c \in Callers : Start(c)
    \/ \E c \in Callers : Stop(c)
    \/ \E c \in Callers : StopResume(c)
    \/ \E c \in Callers : ExecuteOnce(c)
    \/ \E t \in TaskIds : RandomLoop(t)
    \/ \E t \in TaskIds : Cancelled(t)

SpecConc == Init /\ [][NextConc]_vars

\* ------------------------------------------------------------------ status
\* RandomController.status (lines 431-435)
status == [is_running |-> is_running, mode |-> mode, limits |-> limits]

\* ReadStatus by a getter that also clears the running flag.
ReadStatusMut ==
    /\ seen' = status
    /\ is_running' = FALSE
    /\ UNCHANGED <<mode, limits, auto_loop, task, b_channel_timer,
                   connected, tasks, calls, curSess, stoppedUpTo, activeMode,
                   ncalls, last, delays, host, current_levels, dev>>

\* The property is read: the dict it builds is returned, nothing is assigned.
ReadStatus ==
    /\ seen' = status
    /\ UNCHANGED <<is_running, mode, limits, auto_loop, task, b_channel_timer,
                   connected, tasks, calls, curSess, stoppedUpTo, activeMode,
                   ncalls, last, delays, host, current_levels, dev>>

\* Sequential calls as in Spec, with status read at any moment.
NextStatus == Next \/ ReadStatus

SpecStatus == Init /\ [][NextStatus]_vars

\* ------------------------------------------------------ one session's cycles
\* The fields of a controller as __init__ leaves them, as a record.
InitRec ==
    [is_running |-> FALSE, mode |-> "None", limits |-> DefaultLimits,
     auto_loop |-> TRUE, task |-> 0, b_channel_timer |-> "None",
     connected |-> TRUE, tasks |-> [t \in TaskIds |-> NoTask],
     calls |-> [c \in Callers |-> NoCall], curSess |-> 0, stoppedUpTo |-> 0,
     activeMode |-> "None", ncalls |-> 0, last |-> NoCall, seen |-> NoRead,
     delays |-> HoldChoices, host |-> NoHost,
     current_levels |-> NoLevels, dev |-> NoDev]

\* The state is the record s.
Is(s) ==
    /\ is_running = s.is_running
    /\ mode = s.mode
    /\ limits = s.limits
    /\ auto_loop = s.auto_loop
    /\ task = s.task
    /\ b_channel_timer = s.b_channel_timer
    /\ connected = s.connected
    /\ tasks = s.tasks
    /\ calls = s.calls
    /\ curSess = s.curSess
    /\ stoppedUpTo = s.stoppedUpTo
    /\ activeMode = s.activeMode
    /\ ncalls = s.ncalls
    /\ last = s.last
    /\ seen = s.seen
    /\ delays = s.delays
    /\ host = s.host
    /\ current_levels = s.current_levels
    /\ dev = s.dev

\* start(mode, limits, auto_loop) has been called on a new controller and
\* has run to its first await (single shot) or returned (loop task created).
InitCycle ==
    \E in \in CycleInputs, al \in BOOLEAN :
        \E s \in start(InitRec, 1, in[1], in[2], al) : Is(s)

\* No further call is made: the session runs its cycles, on a device whose
\* link may drop.
NextCycle ==
    \/ \E c \in Callers : ExecuteOnce(c)
    \/ \E t \in TaskIds : RandomLoop(t)
    \/ Disconnect
    \/ Reconnect

SpecCycle == InitCycle /\ [][NextCycle]_vars

\* limits of the session whose sleeps are followed.
DelayLimits == [A |-> <<0, 0>>, B |-> <<1, 1>>, C |-> <<0, 0>>]

\* start('speed', limits, auto_loop) has been called on a new controller;
\* the hold of a cycle may be any tenth of a second random.uniform can give.
InitDelay ==
    \E al \in BOOLEAN :
        \E s \in start([InitRec EXCEPT !.delays = HoldTenths], 1, "speed", DelayLimits, al) :
            Is(s)

SpecDelay == InitDelay /\ [][NextCycle]_vars

\* (mode, limits) arguments of a start() with auto_loop=True whose loop task
\* is followed for ever.
LoopInputs ==
    ({"speed", "mode"} \X GoodLimits)
    \cup { <<"speed", [A |-> <<0, 40>>, B |-> <<0, 0>>, C |-> <<0, 20>>]>> }

\* start(mode, limits, auto_loop=True) has returned on a new controller.
InitLoop ==
    \E in \in LoopInputs :
        \E s \in start(InitRec, 1, in[1], in[2], TRUE) : Is(s)

\* No further call is made; the link may drop and come back.
NextLoop ==
    \/ \E t \in TaskIds : RandomLoop(t)
    \/ Disconnect
    \/ Reconnect

\* The event loop runs every coroutine that is ready: a sleep ends, an
\* awaited write returns or raises.
SpecLoopFair ==
    /\ InitLoop
    /\ [][NextLoop]_vars
    /\ WF_vars(\E t \in TaskIds : RandomLoop(t))

\* (mode, limits) arguments of the auto-loop session that is stopped.
StopInputs == {"speed", "mode"} \X {DelayLimits}

\* start(mode, limits, auto_loop=True) has returned on a new controller.
InitStop ==
    \E in \in StopInputs :
        \E s \in start(InitRec, 1, in[1], in[2], TRUE) : Is(s)

\* The loop task runs, stop() is called (one call at a time) at any moment,
\* the link may drop and come back.
NextStop ==
    \/ \E t \in TaskIds : RandomLoop(t)
    \/ \E t \in TaskIds : Cancelled(t)
    \/ \E c \in Callers : SeqStop(c)
    \/ \E c \in Callers : StopResume(c)
    \/ Disconnect
    \/ Reconnect

\* The event loop runs every coroutine that is ready: a sleep ends, an
\* awaited write returns or raises, a requested cancellation is delivered,
\* an awaited task that is done wakes the coroutine awaiting it.
SpecStopFair ==
    /\ InitStop
    /\ [][NextStop]_vars
    /\ WF_vars(\E t \in TaskIds : RandomLoop(t))
    /\ WF_vars(\E t \in TaskIds : Cancelled(t))
    /\ WF_vars(\E c \in Callers : StopResume(c))

\* --------------------------------------------------------- YCY_FJB_Device
\* The arguments handle_basic_control (ControlPanel.py lines 62-82) passes
\* on from what the user typed: any channel letter, any integer.
Motors == {"A", "B", "C", "D"}

Levels == {-1, 0, 1, 20, 21, 40, 41}

ModeArgs == {-1, 0, 1, 7, 8}

\* A device call ends: what it was, how it ended, the packet it sent.
DevEnd(s, before, op, motor, val, result, sent) ==
    [s EXCEPT !.dev = [op |-> op, motor |-> motor, val |-> val, result |-> result,
                       sent |-> sent, before |-> before]]

\* set_speed that stores the level before it validates its arguments.
set_speedMut(s, motor, level) ==
    LET s1 == [s EXCEPT !.current_levels =
                  IF motor \in DOMAIN @ THEN [@ EXCEPT ![motor] = level] ELSE @]
    IN  IF motor \notin {"A", "B", "C"}
           \/ (motor = "A" /\ ~(0 <= level /\ level <= 40))
           \/ (motor # "A" /\ ~(0 <= level /\ level <= 20))
        THEN DevEnd(s1, s.current_levels, "set_speed", motor, level, "ValueError", NoPacket)
        ELSE IF ~s1.connected
        THEN DevEnd(s1, s.current_levels, "set_speed", motor, level, "RuntimeError", NoPacket)
        ELSE DevEnd(s1, s.current_levels, "set_speed", motor, level, "ok",
                    [cmd |-> "speed",
                     data |-> <<s1.current_levels["A"], s1.current_levels["B"],
                                s1.current_levels["C"]>>])

\* set_speed (ycy_fjb.py lines 235-246) with _send_speed_control (lines
\* 271-282): validation, the assignment of current_levels[motor], then the
\* connection test and the packet of the three levels
set_speed(s, motor, level) ==
    IF motor \notin {"A", "B", "C"}
    THEN DevEnd(s, s.current_levels, "set_speed", motor, level, "ValueError", NoPacket)
    ELSE IF motor = "A" /\ ~(0 <= level /\ level <= 40)
    THEN DevEnd(s, s.current_levels, "set_speed", motor, level, "ValueError", NoPacket)
    ELSE IF motor # "A" /\ ~(0 <= level /\ level <= 20)
    THEN DevEnd(s, s.current_levels, "set_speed", motor, level, "ValueError", NoPacket)
    ELSE LET s1 == [s EXCEPT !.current_levels[motor] = level]
         IN  IF ~s1.connected
             THEN DevEnd(s1, s.current_levels, "set_speed", motor, level,
                         "RuntimeError", NoPacket)
             ELSE DevEnd(s1, s.current_levels, "set_speed", motor, level, "ok",
                         [cmd |-> "speed",
                          data |-> <<s1.current_levels["A"], s1.current_levels["B"],
                                     s1.current_levels["C"]>>])

\* set_mode (lines 259-265) with _send_mode_control (lines 293-310)
set_mode(s, motor, mode_value) ==
    IF motor \notin {"A", "B", "C"}
    THEN DevEnd(s, s.current_levels, "set_mode", motor, mode_value, "ValueError", NoPacket)
    ELSE IF ~(0 <= mode_value /\ mode_value <= 7)
    THEN DevEnd(s, s.current_levels, "set_mode", motor, mode_value, "ValueError", NoPacket)
    ELSE IF ~s.connected
    THEN DevEnd(s, s.current_levels, "set_mode", motor, mode_value, "RuntimeError", NoPacket)
    ELSE DevEnd(s, s.current_levels, "set_mode", motor, mode_value, "ok",
                [cmd |-> "mode", data |-> <<motor, mode_value>>])

\* await device.set_speed(channel, value), from call to return or raise
DevSetSpeed ==
    /\ ~is_running
    /\ \E motor \in Motors, level \in Levels : Apply(set_speed(Cur, motor, level))

\* await device.set_mode(channel, value), from call to return or raise
DevSetMode ==
    /\ ~is_running
    /\ \E motor \in Motors, v \in ModeArgs : Apply(set_mode(Cur, motor, v))

\* The device, called directly with any arguments while no random control
\* runs, its link going down and coming back.
NextDevice ==
    \/ DevSetSpeed
    \/ DevSetMode
    \/ Disconnect
    \/ Reconnect

SpecDevice == Init /\ [][NextDevice]_vars

\* ------------------------------------------------------ the two front ends
\* ControlPanel.py lines 103-107: the limits the CLI menu starts with
CliLimits == [A |-> <<0, 20>>, B |-> <<0, 15>>, C |-> <<0, 10>>]

\* The limits read from the GUI's fields (they pass its own validation,
\* YCYControlGUI.py lines 781-789).
GuiLimits == DelayLimits

\* A coroutine may run while the thread of the event loop is not held by a
\* blocking call: the GUI's loop runs in a thread of its own
\* (start_event_loop), the CLI's handler calls input() on the loop's thread
\* and lets the loop run only while it is suspended in an await.
HostRuns == host.kind = "gui" \/ host.cli = "stopping"

\* ControlPanel.py lines 95-115: 'speed' or 'mode' is entered; a new
\* controller is made, start(cmd, limits, auto_loop=True) returns, and the
\* handler blocks in input().
CliStart ==
    /\ host.kind = "cli" /\ host.cli = "menu"
    /\ \E cmd \in {"speed", "mode"} :
         \E s \in start([InitRec EXCEPT !.host = [host EXCEPT !.cli = "input"]],
                        1, cmd, CliLimits, TRUE) :
            Apply(s)

\* ControlPanel.py lines 115-116: Enter is pressed, input() returns and
\* controller.stop() runs to its first await.
CliEnter ==
    /\ host.kind = "cli" /\ host.cli = "input"
    /\ \E s \in stop([Cur EXCEPT !.host.cli = "stopping"], 1) : Apply(s)

\* ControlPanel.py lines 116-117: stop() goes on from an await; when it has
\* returned the handler is back at its prompt.
CliStopStep ==
    /\ host.kind = "cli" /\ host.cli = "stopping"
    /\ calls[1].pc \in {"await_task"} \cup ZeroPcs
    /\ calls[1].pc = "await_task" => tasks[calls[1].waitfor].pc = "done"
    /\ \E s \in stop_resume(Cur, 1) :
         Apply(IF s.calls[1].pc = "idle" THEN [s EXCEPT !.host.cli = "menu"] ELSE s)

\* self.queue.put(callback)
Put(s, cb) == [s EXCEPT !.host.queue = Append(@, cb)]

\* start_random_control (lines 761-806): the start button is pressed; the
\* controller is created and do_start is handed to the event loop.
GuiStart ==
    /\ host.kind = "gui" /\ host.startco = "none"
    /\ \E m \in {"speed", "mode"} :
         Apply([Cur EXCEPT !.host.startco = "pending", !.host.m = m])

\* do_start (lines 797-801): start() on the new controller, then the
\* callback on_random_control_started is queued.
GuiDoStart ==
    /\ host.kind = "gui" /\ host.startco = "pending"
    /\ \E s \in start(Cur, 1, host.m, GuiLimits, TRUE) :
         Apply(Put([s EXCEPT !.host.startco = "done"], "started"))

\* check_queue (lines 86-99) runs the oldest queued callback:
\* on_random_control_started (line 815) or on_random_control_stopped
\* (line 846).
GuiCallback ==
    /\ host.kind = "gui" /\ host.queue # <<>>
    /\ Apply([Cur EXCEPT !.host.queue = Tail(@),
                         !.host.irr = (Head(host.queue) = "started"),
                         !.host.stopped = @ \/ Head(host.queue) = "stopped"])

\* stop_random_control (lines 821-840): the stop button is pressed while
\* is_random_running; do_stop is handed to the event loop.
GuiStopPress ==
    /\ host.kind = "gui" /\ host.irr /\ host.stopco = "none"
    /\ Apply([Cur EXCEPT !.host.stopco = "pending"])

\* do_stop (lines 830-832) begins: controller.stop() to its first await.
GuiDoStop ==
    /\ host.kind = "gui" /\ host.stopco = "pending"
    /\ \E s \in stop([Cur EXCEPT !.host.stopco = "stopping"], 2) : Apply(s)

\* do_stop goes on (lines 832-835): stop() resumes from an await; when it
\* has returned, on_random_control_stopped is queued.
GuiStopStep ==
    /\ host.kind = "gui" /\ host.stopco = "stopping"
    /\ calls[2].pc \in {"await_task"} \cup ZeroPcs
    /\ calls[2].pc = "await_task" => tasks[calls[2].waitfor].pc = "done"
    /\ \E s \in stop_resume(Cur, 2) :
         Apply(IF s.calls[2].pc = "idle"
               THEN Put([s EXCEPT !.host.stopco = "done"], "stopped")
               ELSE s)

\* temp_pause (lines 522-615): the pause button is pressed;
\* is_random_running and the controller are captured (lines 543-544) and
\* do_pause is handed to the event loop.
GuiPausePress ==
    /\ host.kind = "gui" /\ host.pause = "none"
    /\ Apply([Cur EXCEPT !.host.pause = "pending", !.host.cap = host.irr])

\* do_pause begins (lines 555-561): stop() of the captured controller to
\* its first await, or, with no random control captured, the first of the
\* six direct zero writes.
GuiDoPause ==
    /\ host.kind = "gui" /\ host.pause = "pending"
    /\ IF host.cap
       THEN \E s \in stop([Cur EXCEPT !.host.pause = "stopping"], 1) : Apply(s)
       ELSE Apply([Cur EXCEPT !.host.pause = "zero", !.host.pz = 1])

\* do_pause goes on from an await (lines 557-583): the rest of stop(), the
\* six direct zero writes, the sleep of 10-30 s, then start() on the
\* captured controller with the mode and limits of the GUI's fields, or
\* the writes that restore the basic configuration.
GuiPauseStep ==
    /\ host.kind = "gui"
    /\ CASE host.pause \in {"stopping", "restarting"} ->
              /\ calls[1].pc \in {"await_task"} \cup ZeroPcs
              /\ calls[1].pc = "await_task" => tasks[calls[1].waitfor].pc = "done"
              /\ \E s \in stop_resume(Cur, 1) :
                   Apply(IF s.calls[1].pc # "idle" THEN s
                         ELSE IF host.pause = "stopping"
                         THEN [s EXCEPT !.host.pause = "zero", !.host.pz = 1]
                         ELSE [s EXCEPT !.host.pause = "done"])
         [] host.pause = "zero" ->
              IF host.pz < 6
              THEN Apply([Cur EXCEPT !.host.pz = @ + 1])
              ELSE Apply([Cur EXCEPT !.host.pause = "sleep", !.host.pz = 0])
         [] host.pause = "sleep" ->
              IF host.cap
              THEN \E s \in start(Cur, 1, host.m, GuiLimits, TRUE) :
                     Apply([s EXCEPT !.host.pause =
                              IF s.calls[1].pc = "idle" THEN "done" ELSE "restarting"])
              ELSE Apply([Cur EXCEPT !.host.pause = "done"])
         [] OTHER -> FALSE

\* The loop task runs when the event loop can run it.
HostLoop(t) == HostRuns /\ RandomLoop(t)

\* A requested cancellation is delivered when the event loop can run.
HostCancelled(t) == HostRuns /\ Cancelled(t)

\* One of the two programs has made its device connection.
InitHost ==
    \E k \in {"cli", "gui"} :
        Is([InitRec EXCEPT !.host = [NoHost EXCEPT !.kind = k,
                                        !.cli = IF k = "cli" THEN "menu" ELSE "none"]])

NextHost ==
    \/ CliStart
    \/ CliEnter
    \/ CliStopStep
    \/ GuiStart
    \/ GuiDoStart
    \/ GuiCallback
    \/ GuiStopPress
    \/ GuiDoStop
    \/ GuiStopStep
    \/ GuiPausePress
    \/ GuiDoPause
    \/ GuiPauseStep
    \/ \E t \in TaskIds : HostLoop(t)
    \/ \E t \in TaskIds : HostCancelled(t)

\* The engine driven by the CLI menu, or by the GUI with each of its
\* buttons (start, stop, temporary pause) pressed at most once.
SpecHost == InitHost /\ [][NextHost]_vars

\* The loop tasks that are not done.
AliveTasks == { t \in TaskIds : tasks[t].pc \notin {"none", "done"} }

\* A loop task, or a single shot, issues a device call in this step.
TaskIssues(t) == tasks'[t].pc \in CycleWritePcs /\ tasks'[t].pc # tasks[t].pc

OnceIssues(c) == calls'[c].pc \in CycleWritePcs /\ calls'[c].pc # calls[c].pc

\* ------------------------------------------------------------------ claims
\* C1: once a stop() has returned, no coroutine of a session that was
\* Running when that stop() was called (loop task or single-shot start)
\* issues a randomized or release device call.
C1_NoWriteAfterStop ==
    [][ /\ \A t \in TaskIds : TaskIssues(t) => tasks'[t].sess > stoppedUpTo
        /\ \A c \in Callers : OnceIssues(c) => calls'[c].sess > stoppedUpTo ]_vars

\* C2: while a start() made on a Running engine is in the zero writes of
\* its implicit stop, the operation of those writes is the one of the mode
\* the engine was Running in when start() was called, and nothing of the
\* new session has been written yet.
C2_ImplicitStopUsesFirstMode ==
    \A c \in Callers :
        (calls[c].call = "start" /\ calls[c].pc \in ZeroPcs)
        => /\ calls[c].zop = ZeroOp(calls[c].prev_active)
           /\ calls[c].sess = 0
           /\ calls[c].ev = <<>>

\* C3: a stop() called on an engine that is not Running issues no device
\* call: it is never found suspended in a zero write.
C3_IdleStopIssuesNoDeviceCall ==
    \A c \in Callers :
        (calls[c].call = "stop" /\ ~calls[c].was_running) => calls[c].pc \notin ZeroPcs

\* C4: no start() or stop() call ends by raising the failure of a device
\* write.
C4_DeviceFailureNeverPropagates == last.result # "DeviceError"

\* A call is made in this step with arguments the interface documents as
\* invalid: the call is either in progress after the step, or it has
\* returned within the step (no idle caller has left idle) and last is then
\* its record.
BadStartStep ==
    /\ ncalls' = ncalls + 1
    /\ \/ \E c \in Callers :
            calls[c].pc = "idle" /\ calls'[c].pc # "idle" /\ calls'[c].arg_bad
       \/ /\ \A c \in Callers : calls[c].pc = "idle" => calls'[c].pc = "idle"
          /\ last'.call = "start"
          /\ last'.arg_bad

\* C5: a start() whose mode is not 'speed'/'mode', whose limits lack A, B or
\* C, or whose A, B or C pair is out of range or inverted, raises the
\* validation error and changes nothing: is_running, mode, limits,
\* auto_loop, the task handle, status, the loop tasks and every coroutine
\* are as before, and so no device call is issued.
C5_RejectedStartChangesNothing ==
    [][ BadStartStep
          => /\ last'.result = "ValueError"
             /\ calls' = calls
             /\ status' = status
             /\ UNCHANGED <<is_running, mode, limits, auto_loop, task, tasks,
                            b_channel_timer>> ]_vars

\* C5: a start() with arguments documented as invalid was rejected while
\* the loop task of a Running engine was suspended in a device write.
C5_Witness ==
    /\ last.call = "start" /\ last.arg_bad /\ last.result = "ValueError"
    /\ is_running /\ task # 0 /\ tasks[task].pc \in CycleWritePcs

\* C6: at most one loop task is alive.
C6_AtMostOneLoopTask == Cardinality(AliveTasks) <= 1

\* C7: a stop() called while Running has issued the zero write of each of
\* the three channels when it ends.
C7_StopZeroesAllChannels ==
    (last.call = "stop" /\ last.was_running) => last.zdone = 3

\* C8: the zero writes of a stop(), explicit or implicit, use the operation
\* of the mode of the session that was active last when it was called.
C8_ZeroWritesUseLastActiveMode ==
    \A c \in Callers :
        (calls[c].pc \in ZeroPcs /\ calls[c].prev_active # "None")
        => calls[c].zop = ZeroOp(calls[c].prev_active)

\* C9: with calls made one after the other, between two calls: the engine
\* is not Running before the first call and after every stop(); after a
\* start() that returned normally it is Running and status reports the mode
\* and limits of that call; no loop task is alive when it is not Running,
\* and when it is, the only loop task alive is the one the last start()
\* created, if it created one.
C9_StateMachine ==
    AllIdle =>
        /\ ncalls = 0 => ~is_running
        /\ last.call = "stop" => ~status.is_running
        /\ (last.call = "start" /\ last.result = "ok")
           => /\ status.is_running
              /\ status.mode = last.arg_mode
              /\ status.limits = last.arg_limits
              /\ AliveTasks = IF last.arg_auto THEN {task} ELSE {}
        /\ ~is_running => AliveTasks = {}
        /\ Cardinality(AliveTasks) <= 1

\* C9: a second start() made while Running has returned: the task of the
\* first session is done and the task of the second is in a cycle.
C9_Witness ==
    /\ AllIdle
    /\ last.call = "start" /\ last.result = "ok" /\ last.was_running /\ last.arg_auto
    /\ tasks[1].pc = "done"
    /\ task = 2 /\ tasks[2].pc \in CyclePcs
    /\ status.mode = "mode" /\ last.arg_mode = "mode"

\* What a single-shot start in speed mode does when no device write fails.
SingleShotSpeedEvents ==
    << [e |-> "rand", ch |-> "A", n |-> 0],
       [e |-> "rand", ch |-> "C", n |-> 0],
       [e |-> "rand", ch |-> "B", n |-> 0],
       [e |-> "hold", ch |-> "-", n |-> 1000],
       [e |-> "release", ch |-> "B", n |-> 0],
       [e |-> "exhale", ch |-> "-", n |-> 300] >>

SingleShotModeEvents ==
    << [e |-> "rand", ch |-> "A", n |-> 0],
       [e |-> "rand", ch |-> "B", n |-> 0],
       [e |-> "rand", ch |-> "C", n |-> 0],
       [e |-> "hold", ch |-> "-", n |-> 1000] >>

\* The awaits a coroutine of a Mode session may be suspended in, and the
\* device call it is then in: set_mode with a value of 1..7.
ModeCycleOnly(f) ==
    /\ f.pc \in {"mA", "mB", "mC", "hold"}
    /\ f.pc \in CycleWritePcs
       => /\ CycleWrite(f).op = "set_mode"
          /\ CycleWrite(f).kind = "rand"
          /\ CycleWrite(f).val \in 1..7

Frames == { tasks[t] : t \in TaskIds } \cup { calls[c] : c \in Callers }

\* The values channel A may take under limits lim whose A minimum is 0:
\* pause, the forward range and the reverse range that lim allows.
ExpectedA(lim) ==
    {0} \cup (Max(1, lim["A"][1])..Min(20, lim["A"][2]))
        \cup (Max(21, lim["A"][1])..Min(40, lim["A"][2]))

C13_BCChannelValues ==
    mode = "speed"
    => /\ \A ch \in {"B", "C"} :
            /\ generate_random_value(limits, ch, {}) \subseteq limits[ch][1]..limits[ch][2]
            /\ limits[ch][1] \in generate_random_value(limits, ch, {})
            /\ limits[ch][2] \in generate_random_value(limits, ch, {})
       /\ \A f \in Frames :
            /\ f.pc = "wA" => /\ f.vals[2] \in limits["C"][1]..limits["C"][2]
                              /\ f.vals[3] \in limits["B"][1]..limits["B"][2]
            /\ f.pc = "wC" => f.vals[1] \in limits["C"][1]..limits["C"][2]
            /\ f.pc = "wB" => f.vals[1] \in limits["B"][1]..limits["B"][2]

\* C13: with B limits (3, 20) the single shot has drawn 20 for B and is
\* writing it.
C13_Witness ==
    /\ mode = "speed" /\ limits["B"] = <<3, 20>>
    /\ calls[1].pc = "wB" /\ calls[1].vals[1] = 20

\* The release write: set_speed('B', 0) after the hold.
ReleaseWrite == [op |-> "set_speed", ch |-> "B", val |-> 0, kind |-> "release"]

\* C14: in a Speed session, each step of the loop task obeys: when the hold
\* ends it calls set_speed('B', 0) and fixes the exhale at
\* clamp(hold * 0.6, 0.5 s, 3 s); when that write returns it sleeps the
\* exhale; a B write that returned is followed by the hold; and the first
\* write of a cycle (A) begins only when the task starts, after the exhale,
\* after the 1 s wait that follows a failed write, or after a release write
\* that failed.  So a B write of 0 lies between the randomized B writes of
\* two cycles whenever the device writes work.
C14_ReleaseAfterHold ==
    [][ \A t \in TaskIds :
          (mode = "speed" /\ tasks'[t] # tasks[t])
          => /\ tasks[t].pc = "hold"
                => /\ tasks'[t].pc = "rel"
                   /\ CycleWrite(tasks'[t]) = ReleaseWrite
                   /\ tasks'[t].dur = exhale_duration(tasks[t].dur)
                   /\ tasks'[t].dur \in 50..300
             /\ (tasks[t].pc = "rel" /\ connected)
                => (tasks'[t].pc = "exhale" /\ tasks'[t].dur = tasks[t].dur)
             /\ (tasks[t].pc = "wB" /\ connected) => tasks'[t].pc = "hold"
             /\ tasks'[t].pc = "wA"
                => \/ tasks[t].pc \in {"new", "exhale", "backoff"}
                   \/ (tasks[t].pc = "rel" /\ ~connected) ]_vars

\* C14: the loop task of a Speed session has held 3 s, written the release
\* and is in the exhale of 1.8 s.
C14_Witness ==
    /\ mode = "speed" /\ auto_loop /\ is_running /\ connected
    /\ tasks[1].pc = "exhale" /\ tasks[1].dur = 180

\* One step of a coroutine from frame f to frame g keeps the order of the
\* writes of a Speed cycle.
SpeedOrder(f, g) ==
    g.pc # f.pc
    => /\ g.pc = "wA" => f.pc \notin {"wA", "wC", "wB", "hold"}
       /\ g.pc = "wC" => (f.pc = "wA" /\ connected /\ g.vals = Tail(f.vals))
       /\ g.pc = "wB" => (f.pc = "wC" /\ connected /\ g.vals = <<BValue(f.vals[2])>>)
       /\ (g.pc = "hold" /\ mode = "speed") => (f.pc = "wB" /\ connected)

\* C15: in a Speed session the write of C is issued only by the coroutine
\* whose write of A has returned, the write of B only when its write of C
\* has returned, and the hold begins only when the write of B has returned;
\* the values written to C and B are the ones drawn with A's.
C15_SpeedWriteOrder ==
    [][ /\ \A t \in TaskIds : SpeedOrder(tasks[t], tasks'[t])
        /\ \A c \in Callers : SpeedOrder(calls[c], calls'[c]) ]_vars

\* C15: a single shot in speed mode is in its hold, having issued the
\* writes of A, C and B in that order.
C15_Witness ==
    /\ mode = "speed" /\ calls[1].pc = "hold"
    /\ calls[1].ev = SubSeq(SingleShotSpeedEvents, 1, 4)

\* C16: in a Speed session whose B range is 0..0, where every value drawn
\* for B is 0, no coroutine runs the release: none is in the release write
\* or in the exhale.
C16_NoReleaseWhenBZero ==
    (mode = "speed" /\ limits["B"] = <<0, 0>>)
    => \A f \in Frames : f.pc \notin {"rel", "exhale"}

\* The loop task of the session is at the first write of a cycle, or a
\* cycle of it has ended (in the hold, or in the 1 s wait after a failed
\* write).
CycleStarts == task # 0 /\ tasks[task].pc \in {"wA", "mA"}

CycleEnds == task # 0 /\ tasks[task].pc \in {"hold", "backoff"}

\* C17: with no further call made, the loop task never ends and runs
\* infinitely many cycles: again and again it is at the first write of a
\* cycle, and again and again a cycle of it has ended.
C17_LoopNeverEnds ==
    /\ [](task # 0 /\ tasks[task].pc # "done")
    /\ []<>CycleStarts
    /\ []<>CycleEnds

\* C17: the loop task of a Mode session is in the hold of a cycle.
C17_Witness ==
    /\ mode = "mode" /\ auto_loop /\ is_running
    /\ tasks[1].pc = "hold" /\ tasks[1].dur = 1100

\* The awaits of the randomized writes of a cycle.
RandWritePcs == {"wA", "wC", "wB", "mA", "mB", "mC"}

\* C18: when a randomized write awaited by a loop task raises, the task
\* goes to the 1 s wait, with no later write, hold or release of that
\* cycle, the engine stays Running and no field changes; when the wait
\* ends the task draws new values and starts a cycle with its first write.
C18_LoopWriteFailureCaught ==
    [][ \A t \in TaskIds :
          /\ ( /\ tasks[t].pc \in RandWritePcs /\ ~tasks[t].cancel /\ ~connected
               /\ tasks'[t].pc # tasks[t].pc )
             => /\ tasks'[t] = [pc |-> "backoff", cancel |-> FALSE, vals |-> <<>>,
                                dur |-> Backoff, sess |-> tasks[t].sess]
                /\ is_running /\ is_running'
                /\ UNCHANGED <<mode, limits, auto_loop, task>>
          /\ ( /\ tasks[t].pc = "backoff" /\ ~tasks[t].cancel
               /\ tasks'[t].pc # tasks[t].pc )
             => /\ is_running /\ is_running'
                /\ \E o \in BeginCycle(Cur, TRUE) :
                      /\ tasks'[t].pc = o.f.pc
                      /\ tasks'[t].vals = o.f.vals
                      /\ tasks'[t].pc \in {"wA", "mA"} ]_vars

\* C18: after a failed write the loop task of a Running Speed session is
\* in the 1 s wait and the link is back.
C18_Witness ==
    /\ is_running /\ mode = "speed" /\ connected
    /\ task # 0 /\ tasks[task] = [pc |-> "backoff", cancel |-> FALSE, vals |-> <<>>,
                                  dur |-> Backoff, sess |-> curSess]

\* C19: when a randomized write awaited by a single-shot start() raises,
\* start() returns normally in that step: no further write, hold or release
\* is begun (what it has done is what it had done before the failure), no
\* write is taken back, no task is created, and the engine is Running.
C19_SingleShotFailureCaught ==
    [][ \A c \in Callers :
          ( /\ calls[c].pc \in RandWritePcs /\ ~connected
            /\ calls'[c] # calls[c] )
          => /\ calls'[c] = NoCall
             /\ last'.call = "start" /\ last'.result = "ok" /\ last'.failed
             /\ last'.ev = calls[c].ev
             /\ is_running /\ is_running'
             /\ UNCHANGED <<mode, limits, auto_loop, task, tasks>> ]_vars

\* C19: a single shot in speed mode has returned after its second write
\* (C) failed: the write of A was made, nothing followed the write of C.
C19_Witness ==
    /\ AllIdle /\ is_running
    /\ last.call = "start" /\ last.result = "ok" /\ last.failed
    /\ last.arg_mode = "speed" /\ ~last.arg_auto
    /\ last.ev = SubSeq(SingleShotSpeedEvents, 1, 2)

\* status is read in this step.
StatusRead == seen' # NoRead /\ connected' = connected

\* C20: a read of status returns the three fields as they are and changes
\* nothing: no field of the engine, no loop task, no coroutine (so no device
\* call is issued); a read that follows a read, with no step of the engine
\* in between, returns what the one before returned.
C20_StatusPureRead ==
    [][ StatusRead
          => /\ seen' = [is_running |-> is_running, mode |-> mode, limits |-> limits]
             /\ seen # NoRead => seen' = seen
             /\ UNCHANGED <<is_running, mode, limits, auto_loop, task,
                            b_channel_timer, tasks, calls>> ]_vars

\* C20: status was read while the loop task of a Running Mode session was
\* suspended in a write, and what it returned is still what status is.
C20_Witness ==
    /\ seen # NoRead /\ seen = status
    /\ seen.is_running /\ seen.mode = "mode"
    /\ task # 0 /\ tasks[task].pc = "mB"

\* C21: the limits of a start() that returned normally have exactly the
\* keys A, B and C.
C21_LimitsKeysExact ==
    (last.call = "start" /\ last.result = "ok")
    => DOMAIN last.arg_limits = {"A", "B", "C"}

\* C22: a loop task whose cancellation a stop() has requested issues no
\* device call from then on (the call it is suspended in is the only one
\* that may still complete), and that stop() is in its zero writes only
\* when the task has ended.
C22_NoWriteAfterCancel ==
    [][ /\ \A t \in TaskIds : tasks[t].cancel => ~TaskIssues(t)
        /\ \A c \in Callers :
              (calls'[c].pc \in ZeroPcs /\ calls'[c].waitfor # 0)
              => tasks'[calls'[c].waitfor].pc = "done" ]_vars

\* C22: a stop() that cancelled the loop task is in its first zero write,
\* and the task has ended.
C22_Witness ==
    \E c \in Callers :
        /\ calls[c].call = "stop" /\ calls[c].pc = "zA" /\ calls[c].waitfor # 0
        /\ tasks[calls[c].waitfor].pc = "done"

\* C23: when the link is down while the engine is Running, then, unless
\* the link comes back, the loop task eventually ends and is_running
\* becomes False, with no stop() called.
C23_CleansUpOnDisconnect ==
    (~connected /\ is_running)
    ~> (connected \/ (~is_running /\ (task = 0 \/ tasks[task].pc = "done")))

\* C24: the value of every randomized write a coroutine of the session is
\* suspended in lies within the configured min..max of the channel written,
\* in Speed mode and in Mode mode.
C24_WritesWithinLimits ==
    \A f \in Frames :
        f.pc \in RandWritePcs
        => CycleWrite(f).val \in limits[CycleWrite(f).ch][1]..limits[CycleWrite(f).ch][2]

\* C25: in a Speed session with A limits (0, 15) the values the generator
\* chooses from for channel A are pause 0, forward 1..15 and reverse 21..35.
C25_ALimits0To15 ==
    (mode = "speed" /\ limits["A"] = <<0, 15>>)
    => generate_random_value(limits, "A", {}) = {0} \cup (1..15) \cup (21..35)

\* 0.6 * hold clamped to 0.5 s .. 3.0 s, in hundredths of a second.
ClampedExhale(hold) ==
    LET x == (6 * hold) \div 10
    IN  IF x < 50 THEN 50 ELSE IF x > 300 THEN 300 ELSE x

\* One step of a coroutine from frame f to frame g: the exhale fixed when
\* the hold ends, and the exhale slept after the release write.
ExhaleStep(f, g) ==
    /\ (f.pc = "hold" /\ g.pc = "rel")
       => (g.dur = ClampedExhale(f.dur) /\ g.dur \in 50..300)
    /\ (f.pc = "rel" /\ g.pc = "exhale") => g.dur = f.dur

\* C26: the exhale that follows a hold is clamp(0.6 * hold, 0.5 s, 3.0 s),
\* so within 0.5 s .. 3.0 s, and it is the time slept after the release
\* write; after the 10 s hold of a single shot it is 3.0 s.
C26_ExhaleIsClamped ==
    [][ /\ \A t \in TaskIds : ExhaleStep(tasks[t], tasks'[t])
        /\ \A c \in Callers :
              /\ ExhaleStep(calls[c], calls'[c])
              /\ calls'[c].pc \in {"rel", "exhale"} => calls'[c].dur = 300 ]_vars

\* C26: the loop task has held 4.9 s and is in the exhale of 2.94 s.
C26_Witness ==
    /\ mode = "speed" /\ tasks[1].pc = "exhale" /\ tasks[1].dur = 294

Domain(ch) == limits[ch][1]..limits[ch][2]

\* The frames a Speed cycle can begin with if each of the three values is
\* any value of its channel: the value for A first, then C, then B.
AllTriples ==
    { Frame("wA", <<a, c, b>>, 0) :
        a \in Domain("A"), b \in Domain("B"), c \in Domain("C") }

FlatLimits == [limits EXCEPT !.B = limits["A"]]

ZeroCall(c) ==
    [op |-> calls[c].zop,
     ch |-> CHOOSE ch \in {"A", "B", "C"} : ZeroPc(ch) = calls[c].pc,
     val |-> calls[c].vals[1]]

\* C30: every device call a coroutine of the engine is suspended in, of a
\* cycle or of a stop(), has arguments the device accepts.
C30_DeviceAcceptsCalls ==
    /\ \A f \in Frames : f.pc \in CycleWritePcs => DeviceAccepts(CycleWrite(f))
    /\ \A c \in Callers : calls[c].pc \in ZeroPcs => DeviceAccepts(ZeroCall(c))

\* C30: a single shot is in set_speed('A', 40), the largest value of A.
C30_Witness ==
    /\ mode = "speed" /\ calls[1].pc = "wA" /\ calls[1].vals[1] = 40
    /\ DeviceAccepts(CycleWrite(calls[1]))

\* A step of an explicit stop() of caller c: the call, or its resumption
\* from one of its awaits.
StopStep(c) ==
    /\ calls'[c] # calls[c]
    /\ "stop" \in {calls[c].call, calls'[c].call}

\* Every step of an explicit stop() leaves mode, limits, auto_loop, the task
\* reference and the timer as they were; its first step sets is_running
\* False and its later steps do not assign it.
StopFrame ==
    [][ \A c \in Callers : StopStep(c) =>
          /\ mode' = mode /\ limits' = limits /\ auto_loop' = auto_loop
          /\ task' = task /\ b_channel_timer' = b_channel_timer
          /\ is_running' = (IF calls[c].pc = "idle" THEN FALSE ELSE is_running) ]_vars

\* C31: once a stop() has returned and no call is in progress, is_running
\* is False and mode is the mode of the last session that was started.
C31_StopKeepsLastSession ==
    (last.call = "stop" /\ AllIdle /\ activeMode # "None")
        => (~is_running /\ mode = activeMode)

\* A stop() has been called and has not ended.
StopInProgress == \E c \in Callers : calls[c].call = "stop" /\ calls[c].pc # "idle"

\* The last call was a stop() that has ended with the loop task finished:
\* it returned after its three zero writes, or a zero write raised.
StopEnded ==
    /\ AllIdle /\ last.call = "stop"
    /\ tasks[task].pc = "done"
    /\ \/ last.result = "ok" /\ last.zdone = 3
       \/ last.result = "DeviceError"

\* C32: a stop() called during an auto-loop session ends: the loop task,
\* wherever it is suspended when cancellation is requested, finishes, and
\* stop() then runs its zero writes and returns (or a write raises).
C32_StopTerminates ==
    /\ StopInProgress ~> StopEnded
    /\ (\E t \in TaskIds : tasks[t].cancel) ~> (\A t \in TaskIds : ~tasks[t].cancel)

\* C32: stop() awaits a loop task whose cancellation was requested while
\* it sleeps the 1 s after a failed write.
C32_Witness ==
    \E c \in Callers :
        /\ calls[c].call = "stop" /\ calls[c].pc = "await_task"
        /\ tasks[calls[c].waitfor].cancel /\ tasks[calls[c].waitfor].pc = "backoff"

\* C33: in the CLI menu the loop task that start() created makes its first
\* step, the first randomized device write of a cycle, before the stop()
\* that follows the Enter key ends it: no loop task of the CLI goes from
\* created to done without having run.
C33_CliCyclesRun ==
    [][ host.kind = "cli" =>
          \A t \in TaskIds : ~(tasks[t].pc = "new" /\ tasks'[t].pc = "done") ]_vars

\* C34: in the GUI, once on_random_control_stopped has run and
\* is_random_running is False, the controller is not running and has no
\* live loop task.
C34_GuiStoppedMeansStopped ==
    (host.kind = "gui" /\ host.stopped /\ ~host.irr)
        => (~is_running /\ AliveTasks = {})

\* What the device documents as valid arguments of the call made last.
DevArgsValid ==
    /\ dev.motor \in {"A", "B", "C"}
    /\ dev.op = "set_speed" => dev.val \in (IF dev.motor = "A" THEN 0..40 ELSE 0..20)
    /\ dev.op = "set_mode" => dev.val \in 0..7

\* C35: a set_speed or set_mode with a motor or a value outside the
\* documented ranges, and only such a call, ends with the argument error,
\* having sent no packet and left current_levels as it was; current_levels
\* holds a level within 0..40 for A and within 0..20 for B and C.
C35_BadArgumentsRejected ==
    /\ dev.op # "none" => (dev.result = "ValueError" <=> ~DevArgsValid)
    /\ dev.result = "ValueError" =>
          (dev.sent = NoPacket /\ current_levels = dev.before)
    /\ DOMAIN current_levels = {"A", "B", "C"}
    /\ current_levels["A"] \in 0..40
    /\ current_levels["B"] \in 0..20
    /\ current_levels["C"] \in 0..20

\* C35: set_speed('B', 21) has been refused with A at 40 and B at 20.
C35_Witness ==
    /\ dev.op = "set_speed" /\ dev.motor = "B" /\ dev.val = 21
    /\ dev.result = "ValueError"
    /\ current_levels["A"] = 40 /\ current_levels["B"] = 20

\* C36: a set_speed that failed because the device is not connected has
\* left current_levels as it was.
C36_FailedWriteKeepsLevels ==
    (dev.op = "set_speed" /\ dev.result = "RuntimeError")
        => current_levels = dev.before

\* C37: b_channel_timer is None in every state, and a B release is run
\* only inline: by a loop task, or by the start(auto_loop=False) whose
\* single shot it ends, never by a stop() or by a timer coroutine.
C37_TimerNeverArmed ==
    /\ b_channel_timer = "None"
    /\ \A c \in Callers : calls[c].pc \in {"rel", "exhale"} =>
          (calls[c].call = "start" /\ ~calls[c].arg_auto)

\* C37: after a stop() has returned, a single shot is in its release write
\* with no timer armed.
C37_Witness ==
    /\ stoppedUpTo >= 1 /\ b_channel_timer = "None"
    /\ \E c \in Callers : calls[c].pc = "rel" /\ calls[c].call = "start"

====
